---------------------------- MODULE Spec2Model ----------------------------
(***************************************************************************)
(* A model of the riddick Rust symbol extractors:                          *)
(*   - the app parser   (src/apps/rust-parser/src/parser.rs), and          *)
(*   - the WASM library (src/rust-parser/src/lib.rs).                      *)
(*                                                                         *)
(* Source text is modelled as TLA+ strings; a character is a string of     *)
(* length one (SubSeq(s, i, i)).  The syntax tree handed over by the       *)
(* external parsing engine is the input: a sequence of declaration         *)
(* records, with inline module bodies nested inside them.                  *)
(***************************************************************************)
EXTENDS Integers, Sequences, FiniteSets, TLC

VARIABLES
    visIn,      \* SpecVis: Option<ast::Visibility>, the modifier text
    visOut,     \* SpecVis: Option of the string extract_visibility returned
    file,       \* Spec: parsed.tree(), the source file's declarations
    diags,      \* Spec: parsed.errors(), the parser's diagnostics
    resp,       \* Spec: Option of the ParseResponse that was returned
    fnIn,       \* SpecSig: the function node whose signature is taken
    sigOut,     \* SpecSig: Option of [by, signature]
    docIn,      \* SpecDoc: the node and the source extract_doc_comment gets
    docOut,     \* SpecDoc: Option of the Option<String> it returned
    calls,      \* SpecCalls: the invocations so far, each [input, output]
    started,    \* SpecCalls: the worker's start event has run
    events,     \* SpecCalls: the number of tracing events emitted so far
    panicked,   \* SpecCalls: a second global subscriber was set (fatal)
    hook,       \* SpecCalls: the library's panic hook is installed
    locIn,      \* SpecLoc: the file text and the item whose span is taken
    locOut,     \* SpecLoc: Option of the SourceLocation
    inv,        \* SpecPar: the invocations in progress, each with its locals
    ioIn,       \* SpecIo: the entry point and what its environment gives
    ioOut       \* SpecIo: Option of what the entry point gave back

vars == <<visIn, visOut, file, diags, resp, fnIn, sigOut, docIn, docOut,
          calls, started, events, panicked, hook, locIn, locOut, inv,
          ioIn, ioOut>>

\* The variables of each specification.
visVars == <<visIn, visOut>>

parseVars == <<file, diags, resp>>

sigVars == <<fnIn, sigOut>>

docVars == <<docIn, docOut>>

callVars == <<calls, started, events, panicked, hook>>

locVars == <<locIn, locOut>>

parVars == <<inv>>

ioVars == <<ioIn, ioOut>>

-----------------------------------------------------------------------------
(* Option<T>: None is the empty tuple, Some(x) the one-element tuple.      *)

None == <<>>

Some(x) == <<x>>

IsSome(o) == o # <<>>

Unwrap(o) == o[1]

-----------------------------------------------------------------------------
(* std::str operations used by the extractors.                             *)

CharAt(s, i) == SubSeq(s, i, i)

\* str::contains(pat)
Contains(s, pat) ==
    \E i \in 0..(Len(s) - Len(pat)) : SubSeq(s, i + 1, i + Len(pat)) = pat

\* str::starts_with(pat)
StartsWith(s, pat) ==
    Len(s) >= Len(pat) /\ SubSeq(s, 1, Len(pat)) = pat

\* char::is_whitespace, for the characters the inputs use
IsWhitespace(c) == c \in {" ", "\n", "\t", "\r"}

\* str::trim_end
RECURSIVE TrimEnd(_)
TrimEnd(s) ==
    IF Len(s) = 0 THEN s
    ELSE IF IsWhitespace(CharAt(s, Len(s)))
         THEN TrimEnd(SubSeq(s, 1, Len(s) - 1))
         ELSE s

\* str::trim_start
RECURSIVE TrimStart(_)
TrimStart(s) ==
    IF Len(s) = 0 THEN s
    ELSE IF IsWhitespace(CharAt(s, 1))
         THEN TrimStart(SubSeq(s, 2, Len(s)))
         ELSE s

\* str::trim
Trim(s) == TrimStart(TrimEnd(s))

-----------------------------------------------------------------------------
(* Visibility: rust-parser/src/lib.rs extract_visibility and the app       *)
(* parser's is_item_public.                                                *)

\* The mutant checks `pub` before the qualified forms.
extract_visibility_PubFirst(vis) ==
    IF ~IsSome(vis) THEN "private"
    ELSE LET text == Unwrap(vis) IN
         IF Contains(text, "pub") THEN "pub"
         ELSE IF Contains(text, "pub(crate)") THEN "pub(crate)"
         ELSE IF Contains(text, "pub(super)") THEN "pub(super)"
         ELSE IF Contains(text, "pub(in") THEN "pub(in path)"
         ELSE "private"

extract_visibility(vis) ==
    IF ~IsSome(vis) THEN "private"
    ELSE LET text == Unwrap(vis) IN
         IF Contains(text, "pub(crate)") THEN "pub(crate)"
         ELSE IF Contains(text, "pub(super)") THEN "pub(super)"
         ELSE IF Contains(text, "pub(in") THEN "pub(in path)"
         ELSE IF Contains(text, "pub") THEN "pub"
         ELSE "private"

is_item_public(vis) ==
    IF IsSome(vis) THEN Contains(Unwrap(vis), "pub") ELSE FALSE

-----------------------------------------------------------------------------
(* Inputs of the visibility classifier: every concatenation of at most     *)
(* MaxFrags fragments, and the absent modifier.                            *)

MaxFrags == 2

VisFragments ==
    { "pub", "pub(crate)", "pub(super)", "pub(in a::b)", "pub(in c)",
      "pub(self)", "pub (crate)", "crate", " ", "(in" }

RECURSIVE Concats(_, _)
Concats(frags, n) ==
    IF n = 0 THEN {""}
    ELSE LET shorter == Concats(frags, n - 1)
         IN  shorter \cup { s \o f : s \in shorter, f \in frags }

Modifiers == {None} \cup { Some(t) : t \in Concats(VisFragments, MaxFrags) }

-----------------------------------------------------------------------------
(* The syntax tree.  A declaration (ast::Item or ast::AssocItem) is a      *)
(* record                                                                  *)
(*   kind      the node kind: "fn", "struct", "enum", "union", "trait",    *)
(*             "module", "use", "const", "static", "type_alias", "impl",   *)
(*             "macro_rules"                                               *)
(*   vis       visibility(): Option of the modifier's text                 *)
(*   name      name(): Option of the identifier (for a use: use_tree())    *)
(*   self_ty   self_ty(): Option of the implementing type's text           *)
(*   trait_    trait_(): Option of the implemented trait's text            *)
(*   children  item_list() of a module, assoc_item_list() of an impl or    *)
(*             trait: Option of a sequence of declarations                 *)
(*   location  syntax().text_range() as <<start, end>>                     *)

Decl(kind, vis, name, self_ty, trait_, children) ==
    [ kind |-> kind, vis |-> vis, name |-> name, self_ty |-> self_ty,
      trait_ |-> trait_, children |-> children, location |-> <<0, 0>> ]

Leaf(kind, vis, name) == Decl(kind, vis, name, None, None, None)

Impl(self_ty, trait_, fns) ==
    Decl("impl", None, None, Some(self_ty), trait_, Some(fns))

Module(vis, children) == Decl("module", vis, Some("m"), None, None, children)

\* Byte widths of the laid-out text: a node without children takes
\* two bytes, a node with a child list a header, the list and a closing
\* brace; siblings are one byte apart.
RECURSIVE Width(_), SeqWidth(_)
Width(d) ==
    IF IsSome(d.children) THEN 3 + SeqWidth(Unwrap(d.children)) ELSE 2

SeqWidth(ds) ==
    IF ds = <<>> THEN 0 ELSE Width(Head(ds)) + 1 + SeqWidth(Tail(ds))

\* The text ranges of the nodes of a tree laid out from offset off.
RECURSIVE Place(_, _), PlaceSeq(_, _)
Place(d, off) ==
    [ d EXCEPT !.location = <<off, off + Width(d)>>,
               !.children = IF IsSome(d.children)
                            THEN Some(PlaceSeq(Unwrap(d.children), off + 2))
                            ELSE None ]

PlaceSeq(ds, off) ==
    IF ds = <<>> THEN <<>>
    ELSE <<Place(Head(ds), off)>> \o PlaceSeq(Tail(ds), off + Width(Head(ds)) + 1)

-----------------------------------------------------------------------------
(* Input files.  FlatFiles: at most MaxItems top-level declarations of     *)
(* every kind.  NestedFiles: every tree of at most MaxNodes declarations   *)
(* over modules (with and without body), functions, structs and impls.     *)

MaxItems == 2

MaxNodes == 3

PubFn(n) == Leaf("fn", Some("pub"), Some(n))

PrivFn(n) == Leaf("fn", None, Some(n))

ImplA == Impl("A", None, <<PubFn("m"), PrivFn("p")>>)

ImplAB == Impl("Vec<AB>", None, <<PubFn("q"), Leaf("fn", Some("pub"), None)>>)

FlatLeaves ==
    { Leaf("fn", v, Some("f")) :
        v \in {None, Some("pub"), Some("pub(crate)"),
               Some("pub(in a::b)"), Some("pub(in c)")} }
    \cup { Leaf("fn", Some("pub"), None), Leaf("struct", Some("pub"), None) }
    \cup { Leaf(k[1], v, Some(k[2])) :
             k \in { <<"struct", "A">>, <<"enum", "A">>, <<"union", "U">>,
                     <<"module", "m">>, <<"use", "a::b">>, <<"const", "C">>,
                     <<"static", "X">>, <<"type_alias", "Y">> },
             v \in {None, Some("pub")} }
    \cup { Decl("trait", v, Some("T"), None, None,
                Some(<<PrivFn("t"), Leaf("const", None, Some("K")),
                       Leaf("fn", None, None), PubFn("u")>>)) :
             v \in {None, Some("pub")} }
    \cup { ImplA, Impl("A", Some("T"), <<>>),
           Leaf("macro_rules", None, Some("mac")) }

NestLeaves ==
    { PubFn("f"), PrivFn("g"), Leaf("struct", Some("pub"), Some("A")),
      Leaf("struct", Some("pub"), Some("AB")), ImplA, ImplAB }

RECURSIVE SeqsUpTo(_, _)
SeqsUpTo(S, n) ==
    IF n = 0 THEN {<<>>}
    ELSE LET shorter == SeqsUpTo(S, n - 1)
         IN  shorter \cup { Append(s, x) : s \in shorter, x \in S }

\* ForestOf(n): the sequences of declarations with exactly n nodes;
\* DeclOf(n): the declarations with exactly n nodes.
RECURSIVE ForestOf(_), DeclOf(_)
ForestOf(n) ==
    IF n = 0 THEN {<<>>}
    ELSE UNION { { <<d>> \o rest : d \in DeclOf(k), rest \in ForestOf(n - k) } :
                 k \in 1..n }

DeclOf(n) ==
    IF n = 1
    THEN NestLeaves
         \cup { Module(v, c) : v \in {None, Some("pub")}, c \in {None, Some(<<>>)} }
    ELSE { Module(v, Some(body)) : v \in {None, Some("pub")}, body \in ForestOf(n - 1) }

FlatFiles == SeqsUpTo(FlatLeaves, MaxItems)

NestedFiles == UNION { ForestOf(n) : n \in 0..MaxNodes }

\* A file whose inline modules have names of their own:
\* pub mod a { pub mod b { pub mod c { pub fn f() {} } } }  pub mod d {}
ModuleNamed(name, children) ==
    Decl("module", Some("pub"), Some(name), None, None, Some(children))

NamedModuleFiles ==
    { << ModuleNamed("a", << ModuleNamed("b", << ModuleNamed("c", << PubFn("f") >>) >>) >>),
         ModuleNamed("d", <<>>) >> }

Files == { PlaceSeq(f, 0) : f \in FlatFiles \cup NestedFiles \cup NamedModuleFiles }

-----------------------------------------------------------------------------
(* The app parser: apps/rust-parser/src/parser.rs.                         *)
(*                                                                         *)
(* An ItemInfo is [name, location, details]; ItemDetails is a record       *)
(* [tag, methods, items, item_type] whose tag is the enum variant          *)
(* (Function, Struct, Trait, Module, Other) and whose other fields are     *)
(* empty unless the variant carries them.  The text fields (full_code,     *)
(* doc_comment, signature) are modelled on their own below.                *)

ItemInfo(name, location, details) ==
    [ name |-> name, location |-> location, details |-> details ]

Details(tag, methods, items, item_type) ==
    [ tag |-> tag, methods |-> methods, items |-> items, item_type |-> item_type ]

TraitMethodInfo(name, location) == [ name |-> name, location |-> location ]

\* The variant that gives the end of the range first.
text_range_to_byte_offsets_EndFirst(range) == << range[2], range[1] >>

\* [range.start().into(), range.end().into()]
text_range_to_byte_offsets(range) == << range[1], range[2] >>

ModuleInfo(name, path, items, location) ==
    [ name |-> name, path |-> path, items |-> items, location |-> location ]

\* The kinds the `match &item` of the inclusion test names; every other
\* kind takes the `_ => false` arm (or `_ => None` in get_item_visibility).
VisibilityKinds ==
    { "fn", "struct", "enum", "trait", "module", "use", "const", "static",
      "type_alias" }

get_item_visibility(item) ==
    IF item.kind \in VisibilityKinds THEN item.vis ELSE None

\* The `is_public` of the loops over source_file.items() / item_list.items().
is_public(item) ==
    IF item.kind \in VisibilityKinds THEN is_item_public(item.vis) ELSE FALSE

\* The variant that emits a function without a name under an empty name.
extract_function_info_Unnamed(func) ==
    Some(ItemInfo(IF IsSome(func.name) THEN Unwrap(func.name) ELSE "",
                  text_range_to_byte_offsets(func.location), Details("Function", <<>>, <<>>, "")))

extract_function_info(func) ==
    IF ~IsSome(func.name) THEN None
    ELSE Some(ItemInfo(Unwrap(func.name), text_range_to_byte_offsets(func.location),
                       Details("Function", <<>>, <<>>, "")))

\* The loop over assoc_item_list.assoc_items() of one impl block.
RECURSIVE impl_block_methods(_)
impl_block_methods(assoc_items) ==
    IF assoc_items = <<>> THEN <<>>
    ELSE LET assoc_item == Head(assoc_items)
             pushed == IF assoc_item.kind = "fn" /\ is_item_public(assoc_item.vis)
                       THEN extract_function_info(assoc_item)
                       ELSE None
         IN  pushed \o impl_block_methods(Tail(assoc_items))

\* The loop over source_file.items() of the re-parsed source.
RECURSIVE struct_methods_from(_, _)
struct_methods_from(struct_name, items) ==
    IF items = <<>> THEN <<>>
    ELSE LET item == Head(items)
             pushed == IF /\ item.kind = "impl"
                          /\ IsSome(item.self_ty)
                          /\ Contains(Unwrap(item.self_ty), struct_name)
                          /\ IsSome(item.children)
                       THEN impl_block_methods(Unwrap(item.children))
                       ELSE <<>>
         IN  pushed \o struct_methods_from(struct_name, Tail(items))

\* full_source is parsed again; the same text gives the same tree.
extract_struct_methods(struct_name, full_source) ==
    struct_methods_from(struct_name, full_source)

extract_struct_info(s, full_source) ==
    IF ~IsSome(s.name) THEN None
    ELSE Some(ItemInfo(Unwrap(s.name), text_range_to_byte_offsets(s.location),
                       Details("Struct",
                               extract_struct_methods(Unwrap(s.name), full_source),
                               <<>>, "")))

\* The variant that takes the public functions only.
RECURSIVE trait_methods_from_PublicOnly(_)
trait_methods_from_PublicOnly(assoc_items) ==
    IF assoc_items = <<>> THEN <<>>
    ELSE LET item == Head(assoc_items)
             pushed == IF /\ item.kind = "fn"
                          /\ IsSome(item.name)
                          /\ is_item_public(item.vis)
                       THEN <<TraitMethodInfo(Unwrap(item.name),
                                              text_range_to_byte_offsets(item.location))>>
                       ELSE <<>>
         IN  pushed \o trait_methods_from_PublicOnly(Tail(assoc_items))

\* The loop over assoc_item_list.assoc_items() of extract_trait_methods.
RECURSIVE trait_methods_from(_)
trait_methods_from(assoc_items) ==
    IF assoc_items = <<>> THEN <<>>
    ELSE LET item == Head(assoc_items)
             pushed == IF item.kind = "fn" /\ IsSome(item.name)
                       THEN <<TraitMethodInfo(Unwrap(item.name), text_range_to_byte_offsets(item.location))>>
                       ELSE <<>>
         IN  pushed \o trait_methods_from(Tail(assoc_items))

extract_trait_methods(trait_item) ==
    IF IsSome(trait_item.children)
    THEN trait_methods_from(Unwrap(trait_item.children))
    ELSE <<>>

extract_trait_info(t) ==
    IF ~IsSome(t.name) THEN None
    ELSE Some(ItemInfo(Unwrap(t.name), text_range_to_byte_offsets(t.location),
                       Details("Trait", extract_trait_methods(t), <<>>, "")))

extract_other_item_info(item) ==
    LET other(name, item_type) ==
            Some(ItemInfo(name, text_range_to_byte_offsets(item.location), Details("Other", <<>>, <<>>, item_type)))
    IN  CASE item.kind = "enum" ->
                 IF IsSome(item.name) THEN other(Unwrap(item.name), "enum") ELSE None
          [] item.kind = "use" ->
                 IF IsSome(item.name) THEN other(Unwrap(item.name), "use") ELSE None
          [] item.kind = "const" ->
                 IF IsSome(item.name) THEN other(Unwrap(item.name), "const") ELSE None
          [] item.kind = "static" ->
                 IF IsSome(item.name) THEN other(Unwrap(item.name), "static") ELSE None
          [] item.kind = "type_alias" ->
                 IF IsSome(item.name) THEN other(Unwrap(item.name), "type_alias") ELSE None
          [] item.kind = "impl" ->
                 IF ~IsSome(item.self_ty) THEN None
                 ELSE IF IsSome(item.trait_)
                      THEN other(Unwrap(item.trait_) \o " for " \o Unwrap(item.self_ty), "impl")
                      ELSE other(Unwrap(item.self_ty), "impl")
          [] OTHER -> other("unknown", "unknown")

\* The mutant does not descend into the module's item list.
extract_module_item_info_NoRecursion(m, full_source) ==
    IF ~IsSome(m.name) THEN None
    ELSE Some(ItemInfo(Unwrap(m.name), text_range_to_byte_offsets(m.location), Details("Module", <<>>, <<>>, "")))

RECURSIVE extract_item_info(_, _), extract_module_item_info(_, _), module_items_from(_, _)
extract_item_info(item, full_source) ==
    CASE item.kind = "fn"     -> extract_function_info(item)
      [] item.kind = "struct" -> extract_struct_info(item, full_source)
      [] item.kind = "trait"  -> extract_trait_info(item)
      [] item.kind = "module" -> extract_module_item_info(item, full_source)
      [] OTHER                -> extract_other_item_info(item)

\* The loop over item_list.items() of extract_module_item_info.
module_items_from(items, full_source) ==
    IF items = <<>> THEN <<>>
    ELSE LET item == Head(items)
             pushed == IF is_item_public(get_item_visibility(item))
                       THEN extract_item_info(item, full_source)
                       ELSE None
         IN  pushed \o module_items_from(Tail(items), full_source)

extract_module_item_info(m, full_source) ==
    IF ~IsSome(m.name) THEN None
    ELSE Some(ItemInfo(Unwrap(m.name), text_range_to_byte_offsets(m.location),
                       Details("Module", <<>>,
                               IF IsSome(m.children)
                               THEN module_items_from(Unwrap(m.children), full_source)
                               ELSE <<>>,
                               "")))

\* The variant that puts every item before the ones pushed so far.
RECURSIVE public_items_from_Reversed(_, _)
public_items_from_Reversed(items, full_source) ==
    IF items = <<>> THEN <<>>
    ELSE LET item == Head(items)
             pushed == IF is_public(item)
                       THEN extract_item_info(item, full_source)
                       ELSE None
         IN  public_items_from_Reversed(Tail(items), full_source) \o pushed

\* The loop `if is_public { if let Some(..) = extract_item_info(..) { push } }`
\* that extract_module_info and both collect_* functions share.
RECURSIVE public_items_from(_, _)
public_items_from(items, full_source) ==
    IF items = <<>> THEN <<>>
    ELSE LET item == Head(items)
             pushed == IF is_public(item)
                       THEN extract_item_info(item, full_source)
                       ELSE None
         IN  pushed \o public_items_from(Tail(items), full_source)

\* text_range() of a node list: from its first byte to its last.
SourceRange(source_file) ==
    IF source_file = <<>> THEN <<0, 0>>
    ELSE <<0, source_file[Len(source_file)].location[2]>>

extract_module_info(source_file, name, path, full_source) ==
    ModuleInfo(name, path, public_items_from(source_file, full_source),
               text_range_to_byte_offsets(SourceRange(source_file)))

\* An inline module the collect_* functions descend into: a public, named
\* module with an item list.
IsCollectedModule(item) ==
    /\ item.kind = "module"
    /\ is_item_public(item.vis)
    /\ IsSome(item.name)
    /\ IsSome(item.children)

\* The variant that names every module it pushes from `main`, whatever
\* the path of the module it is in.
RECURSIVE collect_module_items_recursive_FlatPath(_, _, _)
collect_module_items_recursive_FlatPath(item_list, parent_path, full_source) ==
    IF item_list = <<>> THEN <<>>
    ELSE LET item == Head(item_list)
             module_path == "main" \o "::" \o Unwrap(item.name)
             pushed ==
                 IF IsCollectedModule(item)
                 THEN <<ModuleInfo(Unwrap(item.name), module_path,
                                   public_items_from(Unwrap(item.children), full_source),
                                   text_range_to_byte_offsets(item.location))>>
                      \o collect_module_items_recursive_FlatPath(
                             Unwrap(item.children), module_path, full_source)
                 ELSE <<>>
         IN  pushed \o collect_module_items_recursive_FlatPath(
                           Tail(item_list), parent_path, full_source)

\* What collect_module_items_recursive pushes onto `modules`.
RECURSIVE collect_module_items_recursive(_, _, _)
collect_module_items_recursive(item_list, parent_path, full_source) ==
    IF item_list = <<>> THEN <<>>
    ELSE LET item == Head(item_list)
             module_path == parent_path \o "::" \o Unwrap(item.name)
             pushed ==
                 IF IsCollectedModule(item)
                 THEN <<ModuleInfo(Unwrap(item.name), module_path,
                                   public_items_from(Unwrap(item.children), full_source),
                                   text_range_to_byte_offsets(item.location))>>
                      \o collect_module_items_recursive(Unwrap(item.children),
                                                        module_path, full_source)
                 ELSE <<>>
         IN  pushed \o collect_module_items_recursive(Tail(item_list), parent_path,
                                                      full_source)

\* The pushes made while collect_modules_recursive walks one module's items:
\* for every submodule, collect_module_items_recursive on the submodule's
\* own item list.
RECURSIVE submodule_pushes(_, _, _)
submodule_pushes(items, module_path, full_source) ==
    IF items = <<>> THEN <<>>
    ELSE LET submodule == Head(items)
             pushed ==
                 IF IsCollectedModule(submodule)
                 THEN collect_module_items_recursive(
                          Unwrap(submodule.children),
                          module_path \o "::" \o Unwrap(submodule.name),
                          full_source)
                 ELSE <<>>
         IN  pushed \o submodule_pushes(Tail(items), module_path, full_source)

\* What collect_modules_recursive pushes onto `modules`.
RECURSIVE collect_modules_recursive(_, _, _)
collect_modules_recursive(source_file, parent_path, full_source) ==
    IF source_file = <<>> THEN <<>>
    ELSE LET module == Head(source_file)
             module_path == parent_path \o "::" \o Unwrap(module.name)
             pushed ==
                 IF IsCollectedModule(module)
                 THEN submodule_pushes(Unwrap(module.children), module_path, full_source)
                      \o <<ModuleInfo(Unwrap(module.name), module_path,
                                      public_items_from(Unwrap(module.children),
                                                        full_source),
                                      text_range_to_byte_offsets(module.location))>>
                 ELSE <<>>
         IN  pushed \o collect_modules_recursive(Tail(source_file), parent_path,
                                                 full_source)

\* parser.rs parse_rust_code: Ok(ParseResponse).
app_parse_rust_code(source_file, parse_errors) ==
    LET root_module == extract_module_info(source_file, "main", "main.rs", source_file)
        all_modules == <<root_module>>
                       \o collect_modules_recursive(source_file, "main", source_file)
    IN  [ parser     |-> "app",
          success    |-> (parse_errors = <<>>),
          parse_time |-> 100,
          crate_info |-> [ name |-> "unnamed", modules |-> all_modules,
                           root_module |-> root_module ],
          errors     |-> [ i \in DOMAIN parse_errors |->
                             [ message |-> parse_errors[i], severity |-> "error",
                               location |-> None ] ] ]

-----------------------------------------------------------------------------
(* The WASM library: rust-parser/src/lib.rs.  Its ItemInfo is flat:        *)
(* [item_type, name, visibility, location, impl_type, trait_name].         *)

LibItemInfo(item_type, name, visibility, location, impl_type, trait_name) ==
    [ item_type |-> item_type, name |-> name, visibility |-> visibility,
      location |-> location, impl_type |-> impl_type, trait_name |-> trait_name ]

\* extract_function_info, extract_struct_info, ... extract_type_alias_info:
\* `name()?` (for a use, `use_tree()?`), then the item with its type string.
lib_extract_named_info(item, item_type) ==
    IF ~IsSome(item.name) THEN None
    ELSE Some(LibItemInfo(item_type, Unwrap(item.name), extract_visibility(item.vis),
                          item.location, None, None))

\* The variant that names an impl block by its type alone.
lib_extract_impl_info_TypeOnly(i) ==
    IF ~IsSome(i.self_ty) THEN None
    ELSE Some(LibItemInfo("impl", Unwrap(i.self_ty), "private", i.location,
                          i.self_ty, i.trait_))

lib_extract_impl_info(i) ==
    IF ~IsSome(i.self_ty) THEN None
    ELSE LET impl_type == Unwrap(i.self_ty)
             name == IF IsSome(i.trait_)
                     THEN Unwrap(i.trait_) \o " for " \o impl_type
                     ELSE impl_type
         IN  Some(LibItemInfo("impl", name, "private", i.location,
                              Some(impl_type), i.trait_))

lib_extract_item_info(item) ==
    CASE item.kind = "fn"         -> lib_extract_named_info(item, "function")
      [] item.kind = "struct"     -> lib_extract_named_info(item, "struct")
      [] item.kind = "enum"       -> lib_extract_named_info(item, "enum")
      [] item.kind = "trait"      -> lib_extract_named_info(item, "trait")
      [] item.kind = "impl"       -> lib_extract_impl_info(item)
      [] item.kind = "module"     -> lib_extract_named_info(item, "mod")
      [] item.kind = "use"        -> lib_extract_named_info(item, "use")
      [] item.kind = "const"      -> lib_extract_named_info(item, "const")
      [] item.kind = "static"     -> lib_extract_named_info(item, "static")
      [] item.kind = "type_alias" -> lib_extract_named_info(item, "type_alias")
      [] OTHER                    -> None

RECURSIVE lib_items_from(_)
lib_items_from(items) ==
    IF items = <<>> THEN <<>>
    ELSE lib_extract_item_info(Head(items)) \o lib_items_from(Tail(items))

lib_extract_module_info(source_file, name, path) ==
    ModuleInfo(name, path, lib_items_from(source_file), SourceRange(source_file))

\* lib.rs parse_rust_code: the ParseResponse handed to the serializer.
lib_parse_rust_code(source_file, parse_errors) ==
    LET root_module == lib_extract_module_info(source_file, "main", "main.rs")
    IN  [ parser     |-> "lib",
          success    |-> (parse_errors = <<>>),
          parse_time |-> 1,
          crate_info |-> [ name |-> "unnamed", modules |-> <<root_module>>,
                           root_module |-> root_module ],
          errors     |-> [ i \in DOMAIN parse_errors |->
                             [ message |-> parse_errors[i], severity |-> "error",
                               location |-> None ] ] ]

-----------------------------------------------------------------------------
(* Spec: one extraction call.  The external parser has produced the tree   *)
(* and its diagnostics; either entry point builds the response.            *)

Diagnostics == { <<>>, <<"syntax error">> }

Init ==
    /\ file \in Files
    /\ diags \in Diagnostics
    /\ resp = None
    /\ visIn = None
    /\ visOut = None
    /\ fnIn = None
    /\ sigOut = None
    /\ docIn = None
    /\ docOut = None
    /\ calls = <<>>
    /\ started = FALSE
    /\ events = 0
    /\ locIn = None
    /\ locOut = None
    /\ panicked = FALSE
    /\ hook = FALSE
    /\ inv = <<>>
    /\ ioIn = None
    /\ ioOut = None

\* The variant that reports success whatever the parser said.
AppParse_AlwaysSuccess ==
    /\ resp = None
    /\ resp' = Some([ app_parse_rust_code(file, diags) EXCEPT !.success = TRUE ])
    /\ UNCHANGED <<file, diags, visVars, sigVars, docVars,
                 callVars, locVars,
                 parVars, ioVars>>

AppParse ==
    /\ resp = None
    /\ resp' = Some(app_parse_rust_code(file, diags))
    /\ UNCHANGED <<file, diags, visVars, sigVars, docVars,
                 callVars, locVars,
                 parVars, ioVars>>

LibParse ==
    /\ resp = None
    /\ resp' = Some(lib_parse_rust_code(file, diags))
    /\ UNCHANGED <<file, diags, visVars, sigVars, docVars,
                 callVars, locVars,
                 parVars, ioVars>>

Next == AppParse \/ LibParse

Spec == Init /\ [][Next]_vars

-----------------------------------------------------------------------------
(* SpecVis: the visibility classifier applied to one modifier.             *)

InitVis ==
    /\ visIn \in Modifiers
    /\ visOut = None
    /\ file = <<>>
    /\ diags = <<>>
    /\ resp = None
    /\ fnIn = None
    /\ sigOut = None
    /\ docIn = None
    /\ docOut = None
    /\ calls = <<>>
    /\ started = FALSE
    /\ events = 0
    /\ locIn = None
    /\ locOut = None
    /\ panicked = FALSE
    /\ hook = FALSE
    /\ inv = <<>>
    /\ ioIn = None
    /\ ioOut = None

ExtractVisibility ==
    /\ visOut = None
    /\ visOut' = Some(extract_visibility(visIn))
    /\ UNCHANGED <<visIn, parseVars, sigVars, docVars,
                 callVars, locVars,
                 parVars, ioVars>>

NextVis == ExtractVisibility

SpecVis == InitVis /\ [][NextVis]_vars

-----------------------------------------------------------------------------
(* Vocabulary of the properties.                                           *)

\* The spec's inclusion predicate over the classifier's result.
isIncluded(visibility, includePrivate) ==
    includePrivate \/ visibility # "private"

\* The declaration kinds of the spec's data model.
SpecKinds ==
    { "fn", "struct", "enum", "union", "trait", "module", "use", "const",
      "static", "type_alias", "impl" }

\* A declaration that has the identifier (or type) its kind requires.
WellFormed(d) ==
    IF d.kind = "impl" THEN IsSome(d.self_ty) ELSE IsSome(d.name)

\* Every declaration node of a forest, at any depth.
RECURSIVE NodesOf(_)
NodesOf(ds) ==
    UNION { {ds[i]} \cup (IF IsSome(ds[i].children)
                          THEN NodesOf(Unwrap(ds[i].children))
                          ELSE {}) : i \in DOMAIN ds }

DeclAt(loc) == CHOOSE d \in NodesOf(file) : d.location = loc

\* Every item of an items list, at any depth of Module nesting.
RECURSIVE ItemsOf(_)
ItemsOf(items) ==
    UNION { {items[i]} \cup ItemsOf(items[i].details.items) : i \in DOMAIN items }

\* The impl blocks of a forest in file order, inside inline modules too.
RECURSIVE ImplBlocksOf(_)
ImplBlocksOf(ds) ==
    IF ds = <<>> THEN <<>>
    ELSE LET d == Head(ds)
             here == IF d.kind = "impl" THEN <<d>>
                     ELSE IF d.kind = "module" /\ IsSome(d.children)
                          THEN ImplBlocksOf(Unwrap(d.children))
                          ELSE <<>>
         IN  here \o ImplBlocksOf(Tail(ds))

Locations(seq) == [ i \in DOMAIN seq |-> seq[i].location ]

HasItemAt(items, loc) == \E k \in DOMAIN items : items[k].location = loc

ItemAt(items, loc) == items[CHOOSE k \in DOMAIN items : items[k].location = loc]

Inside(loc, outer) == outer[1] <= loc[1] /\ loc[2] <= outer[2]

AppResponded == IsSome(resp) /\ Unwrap(resp).parser = "app"

LibResponded == IsSome(resp) /\ Unwrap(resp).parser = "lib"

RootItems == Unwrap(resp).crate_info.root_module.items

-----------------------------------------------------------------------------
(* C1.                                                                     *)

\* In the scope decls assembled into items, under the app parser's policy
\* (includePrivate unset): a well-formed declaration has an item iff it is
\* included, in this scope and in the scopes of the emitted inline modules.
RECURSIVE C1_ScopeFollowsPolicy(_, _)
C1_ScopeFollowsPolicy(decls, items) ==
    \A i \in DOMAIN decls :
        LET d == decls[i] IN
        (d.kind \in SpecKinds /\ WellFormed(d)) =>
            /\ HasItemAt(items, d.location)
                   <=> isIncluded(extract_visibility(d.vis), FALSE)
            /\ (d.kind = "module" /\ IsSome(d.children) /\ HasItemAt(items, d.location))
                   => C1_ScopeFollowsPolicy(Unwrap(d.children),
                                            ItemAt(items, d.location).details.items)

\* C1: every well-formed declaration is emitted iff
\* isIncluded(visibility, includePrivate) holds.  The app parser is the
\* extractor with includePrivate unset, the library the one with it set;
\* the library reports the visibility: `pub` as "pub", no modifier as
\* "private".
C1_EmittedIffIncluded ==
    /\ AppResponded => C1_ScopeFollowsPolicy(file, RootItems)
    /\ LibResponded =>
           \A i \in DOMAIN file :
               LET d == file[i] IN
               (d.kind \in SpecKinds /\ WellFormed(d)) =>
                   /\ HasItemAt(RootItems, d.location)
                          <=> isIncluded(extract_visibility(d.vis), TRUE)
                   /\ (HasItemAt(RootItems, d.location) /\ d.vis = Some("pub"))
                          => ItemAt(RootItems, d.location).visibility = "pub"
                   /\ (HasItemAt(RootItems, d.location) /\ d.vis = None)
                          => ItemAt(RootItems, d.location).visibility = "private"

-----------------------------------------------------------------------------
(* C2.                                                                     *)

\* C2: the classifier returns exactly one of the five tags, the absent
\* modifier is Private, and the rules are tried in the order pub(crate),
\* pub(super), pub(in, pub: the first whose text the modifier contains
\* decides, and a modifier containing none of them is Private.
\* (PublicCrate is "pub(crate)", PublicSuper "pub(super)", PublicIn
\* "pub(in path)", Public "pub", Private "private".)
C2_FirstMatchingRuleWins ==
    IsSome(visOut) =>
        LET tag == Unwrap(visOut)
            has(pat) == IsSome(visIn) /\ Contains(Unwrap(visIn), pat)
        IN  /\ tag \in {"pub(crate)", "pub(super)", "pub(in path)", "pub", "private"}
            /\ has("pub(crate)") => tag = "pub(crate)"
            /\ (~has("pub(crate)") /\ has("pub(super)")) => tag = "pub(super)"
            /\ (~has("pub(crate)") /\ ~has("pub(super)") /\ has("pub(in"))
                   => tag = "pub(in path)"
            /\ (~has("pub(crate)") /\ ~has("pub(super)") /\ ~has("pub(in") /\ has("pub"))
                   => tag = "pub"
            /\ ~has("pub") => tag = "private"

\* A modifier text that matches two rules was classified by the earlier one.
C2_Witness ==
    /\ IsSome(visOut)
    /\ IsSome(visIn)
    /\ Contains(Unwrap(visIn), "pub(super)")
    /\ Contains(Unwrap(visIn), "pub(in")
    /\ Unwrap(visOut) = "pub(super)"

-----------------------------------------------------------------------------
(* C3.                                                                     *)

\* The rule that classifies a modifier text as PublicIn.
IsPublicIn(text) ==
    /\ ~Contains(text, "pub(crate)")
    /\ ~Contains(text, "pub(super)")
    /\ Contains(text, "pub(in")

\* C3: two declarations whose modifiers are both PublicIn with different
\* qualifying paths get different visibility values.
C3_PublicInCarriesPath ==
    LibResponded =>
        \A i, j \in DOMAIN file :
            ( /\ HasItemAt(RootItems, file[i].location)
              /\ HasItemAt(RootItems, file[j].location)
              /\ IsSome(file[i].vis) /\ IsPublicIn(Unwrap(file[i].vis))
              /\ IsSome(file[j].vis) /\ IsPublicIn(Unwrap(file[j].vis))
              /\ file[i].vis # file[j].vis )
            => ItemAt(RootItems, file[i].location).visibility
                   # ItemAt(RootItems, file[j].location).visibility

-----------------------------------------------------------------------------
(* C4.                                                                     *)

\* C4: a module declared without an inline body is never an item: no
\* Module item of the result, at any depth, comes from a module
\* declaration that has no body (it is to be a ModuleReference instead).
C4_BodilessModuleIsNoItem ==
    AppResponded =>
        \A it \in ItemsOf(RootItems) :
            it.details.tag = "Module" => IsSome(DeclAt(it.location).children)

-----------------------------------------------------------------------------
(* C5.                                                                     *)

\* In the scope decls assembled into items: every included inline module
\* has exactly one item, Module-tagged, whose nested items are what the
\* file-level assembler (extract_module_info) makes of its body, and so on
\* inside it; an excluded inline module leaves no item of its own and none
\* from inside it.
RECURSIVE C5_ScopeModules(_, _)
C5_ScopeModules(decls, items) ==
    \A i \in DOMAIN decls :
        LET m == decls[i] IN
        (m.kind = "module" /\ IsSome(m.children)) =>
            IF IsSome(m.name) /\ isIncluded(extract_visibility(m.vis), FALSE)
            THEN /\ Cardinality({ k \in DOMAIN items : items[k].location = m.location }) = 1
                 /\ LET it == ItemAt(items, m.location) IN
                    /\ it.details.tag = "Module"
                    /\ it.details.items
                           = extract_module_info(Unwrap(m.children), "m", "m", file).items
                    /\ C5_ScopeModules(Unwrap(m.children), it.details.items)
            ELSE \A k \in DOMAIN items : ~Inside(items[k].location, m.location)

-----------------------------------------------------------------------------
(* C6.                                                                     *)

\* The functions of one impl block that pass the inclusion policy and
\* have a name, in declaration order.
RECURSIVE IncludedFns(_)
IncludedFns(assoc) ==
    IF assoc = <<>> THEN <<>>
    ELSE LET a == Head(assoc)
             here == IF /\ a.kind = "fn"
                        /\ IsSome(a.name)
                        /\ isIncluded(extract_visibility(a.vis), FALSE)
                     THEN <<a>> ELSE <<>>
         IN  here \o IncludedFns(Tail(assoc))

\* The methods the blocks (in order) give the ADT called name.
RECURSIVE ExpectedMethods(_, _)
ExpectedMethods(name, blocks) ==
    IF blocks = <<>> THEN <<>>
    ELSE LET b == Head(blocks)
             here == IF /\ IsSome(b.self_ty)
                        /\ Contains(Unwrap(b.self_ty), name)
                        /\ IsSome(b.children)
                     THEN IncludedFns(Unwrap(b.children)) ELSE <<>>
         IN  here \o ExpectedMethods(name, Tail(blocks))

\* An item made from a struct, enum or union declaration.
IsAdtItem(it) == DeclAt(it.location).kind \in {"struct", "enum", "union"}

\* C6: the methods of every emitted ADT are the included, named functions
\* of all impl blocks of the file, in file order, whose type text contains
\* the ADT's name.
C6_MethodsOfAllMatchingBlocks ==
    AppResponded =>
        \A it \in ItemsOf(RootItems) :
            IsAdtItem(it) =>
                Locations(it.details.methods)
                    = Locations(ExpectedMethods(it.name, ImplBlocksOf(file)))

-----------------------------------------------------------------------------
(* C7.                                                                     *)

\* C7: a struct at any depth has among its methods the included, named
\* functions of every impl block, at any depth, whose type text contains
\* its name.
C7_ImplAssociationIsFileWide ==
    AppResponded =>
        \A it \in ItemsOf(RootItems) :
            it.details.tag = "Struct" =>
                \A b \in NodesOf(file) :
                    ( /\ b.kind = "impl"
                      /\ IsSome(b.self_ty)
                      /\ Contains(Unwrap(b.self_ty), it.name)
                      /\ IsSome(b.children) )
                    => \A k \in DOMAIN IncludedFns(Unwrap(b.children)) :
                           HasItemAt(it.details.methods,
                                     IncludedFns(Unwrap(b.children))[k].location)

-----------------------------------------------------------------------------
(* C8.                                                                     *)

\* C8: the details tag of every item is the one of its declaration's kind:
\* Function for a function, the ADT tag (`Struct` in parser.rs) for a
\* struct, an enum or a union, Trait for a trait, Module for a module, and
\* Other only for imports, constants, statics, type aliases and impl
\* blocks.
C8_TagMatchesKind ==
    AppResponded =>
        \A it \in ItemsOf(RootItems) :
            LET kind == DeclAt(it.location).kind
                tag  == it.details.tag
            IN  /\ kind = "fn" => tag = "Function"
                /\ kind \in {"struct", "enum", "union"} => tag = "Struct"
                /\ kind = "trait" => tag = "Trait"
                /\ kind = "module" => tag = "Module"
                /\ tag = "Other"
                       => kind \in {"use", "const", "static", "type_alias", "impl"}

-----------------------------------------------------------------------------
\* Function signatures (apps/rust-parser parser.rs, extract_function_info and
\* extract_trait_methods).  A function node is what the syntax tree hands
\* over: its name when it has one, its text, the absolute offset its text
\* range starts at, and, when it has a body, the absolute offset the body's
\* text range starts at.

FnNode(name, text, func_start, body_start) ==
    [ name |-> name, text |-> text, func_start |-> func_start,
      body_start |-> body_start ]

\* The variant that cuts at the body and keeps the whitespace before it.
signature_NoTrimEnd(func) ==
    IF IsSome(func.body_start)
    THEN SubSeq(func.text, 1, Unwrap(func.body_start) - func.func_start)
    ELSE func.text

\* extract_function_info: full_code[..(body_start - func_start)].trim_end()
\* when func.body() is Some, the whole node text otherwise.
signature(func) ==
    LET full_code == func.text
    IN  IF IsSome(func.body_start)
        THEN TrimEnd(SubSeq(full_code, 1,
                            Unwrap(func.body_start) - func.func_start))
        ELSE full_code

\* extract_trait_methods: the same computation for a method of a trait.
method_signature(method) ==
    LET full_code == method.text
    IN  IF IsSome(method.body_start)
        THEN TrimEnd(SubSeq(full_code, 1,
                            Unwrap(method.body_start) - method.func_start))
        ELSE full_code

\* Bounds of the function nodes.
MaxGap == 2

MaxStart == 2

\* The headers, each with the name the tree gives the function.
FnHeaders ==
    { <<Some("f"), "fn f()">>,
      <<Some("add"), "pub fn add(a: T, b: T) -> T">>,
      <<Some("g"), "fn g<T>()\n    where T: X">>,
      <<Some("h"), "/// d\n#[inline]\nunsafe fn h(&self)">>,
      <<None, "pub fn ()">> }

FnBodies == { "{}", "{ a + b }", "{\n    if x { y } \n}" }

RECURSIVE Gaps(_)
\* The whitespace strings of at most n characters.
Gaps(n) ==
    IF n = 0 THEN { "" }
    ELSE Gaps(n - 1) \cup
         { g \o c : g \in Gaps(n - 1), c \in { " ", "\n", "\t" } }

FnNodes ==
    { FnNode(h[1], h[2] \o g \o b, s, Some(s + Len(h[2] \o g))) :
          h \in FnHeaders, g \in Gaps(MaxGap), b \in FnBodies,
          s \in 0..MaxStart }
    \cup { FnNode(h[1], h[2] \o g \o ";", s, None) :
               h \in FnHeaders, g \in Gaps(MaxGap), s \in 0..MaxStart }

InitSig ==
    /\ fnIn \in { Some(f) : f \in FnNodes }
    /\ sigOut = None
    /\ visIn = None
    /\ visOut = None
    /\ file = <<>>
    /\ diags = <<>>
    /\ resp = None
    /\ docIn = None
    /\ docOut = None
    /\ calls = <<>>
    /\ started = FALSE
    /\ events = 0
    /\ locIn = None
    /\ locOut = None
    /\ panicked = FALSE
    /\ hook = FALSE
    /\ inv = <<>>
    /\ ioIn = None
    /\ ioOut = None

\* What either function gives for one function node: nothing for a
\* function without a name, the signature otherwise.
SignatureOf(by, func, sig) ==
    [ by |-> by,
      signature |-> IF IsSome(func.name) THEN Some(sig) ELSE None ]

\* extract_function_info on a free function or a method of an impl block
ExtractFunctionInfo ==
    /\ sigOut = None
    /\ sigOut' = Some(SignatureOf("extract_function_info", Unwrap(fnIn),
                                  signature(Unwrap(fnIn))))
    /\ UNCHANGED <<fnIn, visVars, parseVars, docVars,
                 callVars, locVars,
                 parVars, ioVars>>

\* extract_trait_methods on one method of a trait
ExtractTraitMethod ==
    /\ sigOut = None
    /\ sigOut' = Some(SignatureOf("extract_trait_methods", Unwrap(fnIn),
                                  method_signature(Unwrap(fnIn))))
    /\ UNCHANGED <<fnIn, visVars, parseVars, docVars,
                 callVars, locVars,
                 parVars, ioVars>>

NextSig == ExtractFunctionInfo \/ ExtractTraitMethod

SpecSig == InitSig /\ [][NextSig]_vars

-----------------------------------------------------------------------------
\* C9

\* s with its trailing whitespace removed is t: t is a prefix of s that
\* does not end in whitespace, and everything of s after it is whitespace.
IsTrimmedEndOf(t, s) ==
    /\ StartsWith(s, t)
    /\ Len(t) = 0 \/ ~IsWhitespace(CharAt(t, Len(t)))
    /\ \A k \in (Len(t) + 1)..Len(s) : IsWhitespace(CharAt(s, k))

\* C9: the signature of a function with a body is the function's source
\* text from its start up to the start of the body with the trailing
\* whitespace removed, so it holds no part of the body; the signature of a
\* function without a body is its whole source text.  This is so for free
\* functions and methods of impl blocks and for methods of traits.
C9_SignatureStopsAtBody ==
    (IsSome(sigOut) /\ IsSome(Unwrap(sigOut).signature)) =>
        LET func == Unwrap(fnIn)
            sig  == Unwrap(Unwrap(sigOut).signature)
        IN  /\ StartsWith(func.text, sig)
            /\ IF IsSome(func.body_start)
               THEN LET upto == Unwrap(func.body_start) - func.func_start
                    IN  /\ IsTrimmedEndOf(sig, SubSeq(func.text, 1, upto))
                        /\ Len(sig) <= upto
               ELSE sig = func.text

\* A method of a trait that starts past offset 0 and has whitespace before
\* its body got its signature.
C9_Witness ==
    /\ IsSome(sigOut)
    /\ IsSome(Unwrap(sigOut).signature)
    /\ LET func == Unwrap(fnIn)
       IN  /\ IsSome(func.body_start)
           /\ func.func_start > 0
           /\ Len(Unwrap(Unwrap(sigOut).signature))
                  < Unwrap(func.body_start) - func.func_start
           /\ Unwrap(sigOut).by = "extract_trait_methods"

-----------------------------------------------------------------------------
\* Doc comments (apps/rust-parser parser.rs, extract_doc_comment and
\* extract_attributes_from_syntax).  Offsets are byte offsets; the inputs
\* are ASCII, so a byte is a character.

\* str::find(pat): the 0-based offset of the first occurrence
Find(s, pat) ==
    IF Contains(s, pat)
    THEN Some(CHOOSE i \in 0..(Len(s) - Len(pat)) :
                  /\ SubSeq(s, i + 1, i + Len(pat)) = pat
                  /\ \A j \in 0..(i - 1) : SubSeq(s, j + 1, j + Len(pat)) # pat)
    ELSE None

\* str::rfind(pat): the 0-based offset of the last occurrence
RFind(s, pat) ==
    IF Contains(s, pat)
    THEN Some(CHOOSE i \in 0..(Len(s) - Len(pat)) :
                  /\ SubSeq(s, i + 1, i + Len(pat)) = pat
                  /\ \A j \in (i + 1)..(Len(s) - Len(pat)) :
                         SubSeq(s, j + 1, j + Len(pat)) # pat)
    ELSE None

\* str::lines drops one "\r" before the line feed
StripCR(line) ==
    IF Len(line) > 0 /\ CharAt(line, Len(line)) = "\r"
    THEN SubSeq(line, 1, Len(line) - 1)
    ELSE line

\* str::lines: split at line feeds; a final line feed opens no further line
RECURSIVE Lines(_)
Lines(s) ==
    IF Len(s) = 0 THEN <<>>
    ELSE LET nl == Find(s, "\n")
         IN  IF ~IsSome(nl) THEN << s >>
             ELSE << StripCR(SubSeq(s, 1, Unwrap(nl))) >>
                      \o Lines(SubSeq(s, Unwrap(nl) + 2, Len(s)))

\* str::trim_start_matches(pat): remove pat from the front while it is there
RECURSIVE TrimStartMatches(_, _)
TrimStartMatches(s, pat) ==
    IF StartsWith(s, pat)
    THEN TrimStartMatches(SubSeq(s, Len(pat) + 1, Len(s)), pat)
    ELSE s

\* [String]::join(sep)
RECURSIVE Join(_, _)
Join(strs, sep) ==
    IF Len(strs) = 0 THEN ""
    ELSE IF Len(strs) = 1 THEN strs[1]
    ELSE strs[1] \o sep \o Join(Tail(strs), sep)

\* Vec::reverse
Reverse(seq) == [ i \in 1..Len(seq) |-> seq[Len(seq) + 1 - i] ]

\* A node as extract_doc_comment sees it: the offset its text range starts
\* at and its previous sibling nodes, the nearest first, each with its kind
\* and text.
DocNode(start_offset, prev_siblings) ==
    [ start_offset |-> start_offset, prev_siblings |-> prev_siblings ]

\* SyntaxKind::is_trivia
IsTrivia(kind) == kind \in { "WHITESPACE", "COMMENT" }

\* The variant of the upward scan that passes over the lines that are
\* neither doc lines nor blank.
RECURSIVE doc_lines_above_NoBreak(_)
doc_lines_above_NoBreak(lines) ==
    IF Len(lines) = 0 THEN <<>>
    ELSE LET trimmed == Trim(lines[Len(lines)])
             rest    == SubSeq(lines, 1, Len(lines) - 1)
         IN  IF StartsWith(trimmed, "///")
             THEN doc_lines_above_NoBreak(rest)
                      \o << Trim(TrimStartMatches(trimmed, "///")) >>
             ELSE doc_lines_above_NoBreak(rest)

\* extract_doc_comment, the loop over lines.iter().rev(): a doc line goes
\* to the front of doc_lines, a blank line is passed, any other line ends
\* the loop.
RECURSIVE doc_lines_above(_)
doc_lines_above(lines) ==
    IF Len(lines) = 0 THEN <<>>
    ELSE LET trimmed == Trim(lines[Len(lines)])
             rest    == SubSeq(lines, 1, Len(lines) - 1)
         IN  IF StartsWith(trimmed, "///")
             THEN doc_lines_above(rest)
                      \o << Trim(TrimStartMatches(trimmed, "///")) >>
             ELSE IF Len(trimmed) = 0
                  THEN doc_lines_above(rest)
                  ELSE <<>>

\* extract_attributes_from_syntax, the walk over prev_sibling(): the texts
\* of the attributes in the order met, up to the first node that is neither
\* an attribute nor trivia.
RECURSIVE attributes_walk(_)
attributes_walk(siblings) ==
    IF Len(siblings) = 0 THEN <<>>
    ELSE LET prev == Head(siblings)
         IN  IF prev.kind = "ATTR"
             THEN << prev.text >> \o attributes_walk(Tail(siblings))
             ELSE IF ~IsTrivia(prev.kind)
                  THEN <<>>
                  ELSE attributes_walk(Tail(siblings))

extract_attributes_from_syntax(syntax) ==
    Reverse(attributes_walk(syntax.prev_siblings))

\* extract_doc_comment, the body of the loop over the attributes: what one
\* attribute adds to doc_lines.
doc_attribute_line(attr_text) ==
    IF ~StartsWith(attr_text, "#[doc") THEN <<>>
    ELSE LET start == Find(attr_text, "\"")
             end   == RFind(attr_text, "\"")
         IN  IF IsSome(start) /\ IsSome(end) /\ Unwrap(start) < Unwrap(end)
             THEN << SubSeq(attr_text, Unwrap(start) + 2, Unwrap(end)) >>
             ELSE <<>>

RECURSIVE doc_attribute_lines(_)
doc_attribute_lines(attrs) ==
    IF Len(attrs) = 0 THEN <<>>
    ELSE doc_attribute_line(Head(attrs)) \o doc_attribute_lines(Tail(attrs))

extract_doc_comment(syntax, full_source) ==
    LET lines     == Lines(SubSeq(full_source, 1, syntax.start_offset))
        doc_lines == doc_lines_above(lines)
                         \o doc_attribute_lines(
                                extract_attributes_from_syntax(syntax))
    IN  IF Len(doc_lines) = 0 THEN None ELSE Some(Join(doc_lines, "\n"))

\* The source above a declaration is at most MaxLines lines, each one
\* element of the parent node: a comment or a blank line (tokens), or an
\* attribute or a function (nodes).  The declaration follows on a line of
\* its own, indented or not.
MaxLines == 3

Element(kind, text) == [ kind |-> kind, text |-> text ]

LineElements ==
    { Element("COMMENT", "/// a"),
      Element("COMMENT", "  ///b "),
      Element("COMMENT", "//// e"),
      Element("COMMENT", "// c"),
      Element("WHITESPACE", ""),
      Element("FN", "fn x() {}"),
      Element("ATTR", "#[doc = \"d\"]"),
      Element("ATTR", "#[doc(hidden)]"),
      Element("ATTR", "#![doc = \"i\"]") }

Indents == { "", "    " }

RECURSIVE ElementsUpTo(_)
ElementsUpTo(n) ==
    IF n = 0 THEN { <<>> }
    ELSE ElementsUpTo(n - 1) \cup
         { Append(es, e) : es \in { x \in ElementsUpTo(n - 1) : Len(x) = n - 1 },
                           e \in LineElements }

\* The text of the elements, a line each.
RECURSIVE TextOf(_)
TextOf(elements) ==
    IF Len(elements) = 0 THEN ""
    ELSE Head(elements).text \o "\n" \o TextOf(Tail(elements))

\* The nodes among the elements, the last first: what prev_sibling() gives
\* from the declaration on.
RECURSIVE PrevSiblings(_)
PrevSiblings(elements) ==
    IF Len(elements) = 0 THEN <<>>
    ELSE LET last == elements[Len(elements)]
             rest == PrevSiblings(SubSeq(elements, 1, Len(elements) - 1))
         IN  IF last.kind \in { "FN", "ATTR" } THEN << last >> \o rest
             ELSE rest

DocInput(elements, indent) ==
    LET above == TextOf(elements) \o indent
    IN  [ full_source |-> above \o "pub struct S;\n",
          syntax      |-> DocNode(Len(above), PrevSiblings(elements)) ]

DocInputs ==
    { DocInput(es, ind) : es \in ElementsUpTo(MaxLines), ind \in Indents }

InitDoc ==
    /\ docIn \in { Some(d) : d \in DocInputs }
    /\ docOut = None
    /\ fnIn = None
    /\ sigOut = None
    /\ visIn = None
    /\ visOut = None
    /\ file = <<>>
    /\ diags = <<>>
    /\ resp = None
    /\ calls = <<>>
    /\ started = FALSE
    /\ events = 0
    /\ locIn = None
    /\ locOut = None
    /\ panicked = FALSE
    /\ hook = FALSE
    /\ inv = <<>>
    /\ ioIn = None
    /\ ioOut = None

ExtractDocComment ==
    /\ docOut = None
    /\ docOut' = Some(extract_doc_comment(Unwrap(docIn).syntax,
                                          Unwrap(docIn).full_source))
    /\ UNCHANGED <<docIn, visVars, parseVars, sigVars,
                 callVars, locVars,
                 parVars, ioVars>>

NextDoc == ExtractDocComment

SpecDoc == InitDoc /\ [][NextDoc]_vars

-----------------------------------------------------------------------------
\* C10

\* A doc line starts, after its indentation, with the marker; a blank line
\* holds whitespace only.
IsDocLine(line) == StartsWith(Trim(line), "///")

IsBlankLine(line) == Len(Trim(line)) = 0

\* The line the upward scan stops at: the last line that is neither a doc
\* line nor blank, 0 when there is none.
StopIndex(lines) ==
    LET stops == { i \in 1..Len(lines) :
                       ~IsDocLine(lines[i]) /\ ~IsBlankLine(lines[i]) }
    IN  IF stops = {} THEN 0
        ELSE CHOOSE i \in stops : \A j \in stops : j <= i

\* The number of slashes a text starts with.
LeadingSlashes(t) ==
    CHOOSE n \in 0..Len(t) :
        /\ \A j \in 1..n : CharAt(t, j) = "/"
        /\ n = Len(t) \/ CharAt(t, n + 1) # "/"

\* A doc line without its indentation, its markers and the whitespace
\* around what is left.
ContentOf(line) ==
    LET t == Trim(line)
        n == LeadingSlashes(t)
    IN  Trim(SubSeq(t, 3 * (n \div 3) + 1, Len(t)))

\* The contents of the doc lines below the stopping line, in source order.
BlockAbove(lines) ==
    LET InBlock(i) == i > StopIndex(lines) /\ IsDocLine(lines[i])
        picked     == SelectSeq([ i \in 1..Len(lines) |-> i ], InBlock)
    IN  [ j \in 1..Len(picked) |-> ContentOf(lines[picked[j]]) ]

\* The text between the first and the last quotation mark of a doc attribute.
HasQuoted(text) ==
    /\ StartsWith(text, "#[doc")
    /\ Cardinality({ i \in 1..Len(text) : CharAt(text, i) = "\"" }) >= 2

Quoted(text) ==
    LET quotes == { i \in 1..Len(text) : CharAt(text, i) = "\"" }
        first  == CHOOSE i \in quotes : \A j \in quotes : i <= j
        last   == CHOOSE i \in quotes : \A j \in quotes : j <= i
    IN  SubSeq(text, first + 1, last - 1)

\* The quoted contents of the doc attributes among the attributes that are
\* the previous siblings of the node with no other node between, in source
\* order.
DocAttributesBefore(siblings) ==
    LET n      == CHOOSE k \in 0..Len(siblings) :
                      /\ \A j \in 1..k : siblings[j].kind = "ATTR"
                      /\ k = Len(siblings) \/ siblings[k + 1].kind # "ATTR"
        run    == [ j \in 1..n |-> siblings[n + 1 - j].text ]
        picked == SelectSeq(run, HasQuoted)
    IN  [ j \in 1..Len(picked) |-> Quoted(picked[j]) ]

\* The doc comment that a sequence of contents makes.
DocCommentOf(contents) ==
    IF Len(contents) = 0 THEN None ELSE Some(Join(contents, "\n"))

LinesAboveDecl ==
    Lines(SubSeq(Unwrap(docIn).full_source, 1,
                 Unwrap(docIn).syntax.start_offset))

-----------------------------------------------------------------------------
\* C11

\* The Module items of the nested tree that come from inline modules.
InlineModuleItems ==
    { it \in ItemsOf(RootItems) :
          it.details.tag = "Module" /\ IsSome(DeclAt(it.location).children) }

\* C11: crate_info.modules is a projection of the nested tree: after the
\* root module it has exactly one entry for every included inline module of
\* every depth, no other entry, and the items of an entry are the nested
\* items of the module's item in the tree.
C11_FlatListIsProjection ==
    AppResponded =>
        LET modules == Unwrap(resp).crate_info.modules
            entries == Tail(modules)
        IN  /\ modules[1] = Unwrap(resp).crate_info.root_module
            /\ \A it \in InlineModuleItems :
                   /\ Cardinality({ k \in DOMAIN entries :
                                        entries[k].location = it.location }) = 1
                   /\ \A k \in DOMAIN entries :
                          entries[k].location = it.location
                              => entries[k].items = it.details.items
            /\ \A k \in DOMAIN entries :
                   \E it \in InlineModuleItems : entries[k].location = it.location

-----------------------------------------------------------------------------
\* C12

\* C12: in every response, of either parser, success is true iff the list
\* of diagnostics is empty; an input for which the parser reports a
\* diagnostic gets success = false.
C12_SuccessIffNoDiagnostics ==
    IsSome(resp) =>
        /\ Unwrap(resp).success <=> (Len(Unwrap(resp).errors) = 0)
        /\ Len(diags) > 0 => ~Unwrap(resp).success

\* The app parser answered an input with a diagnostic and with items.
C12_Witness ==
    /\ AppResponded
    /\ Len(diags) > 0
    /\ Len(Unwrap(resp).errors) > 0
    /\ ~Unwrap(resp).success
    /\ Len(RootItems) > 0

-----------------------------------------------------------------------------
\* C13

\* In the scope decls assembled into items: every included, well-formed
\* declaration has its item, and so inside every emitted inline module.
RECURSIVE C13_ScopeComplete(_, _)
C13_ScopeComplete(decls, items) ==
    \A i \in DOMAIN decls :
        LET d == decls[i] IN
        ( /\ d.kind \in SpecKinds
          /\ WellFormed(d)
          /\ isIncluded(extract_visibility(d.vis), FALSE) )
        => /\ HasItemAt(items, d.location)
           /\ (d.kind = "module" /\ IsSome(d.children))
                  => C13_ScopeComplete(Unwrap(d.children),
                                       ItemAt(items, d.location).details.items)

\* C13: whatever the parser's diagnostics, the app parser's call returns a
\* response that carries every diagnostic and the item tree, and the tree
\* holds every included, well-formed declaration of the (partial) tree.
C13_DiagnosticsNeverAbort ==
    AppResponded =>
        /\ Len(Unwrap(resp).errors) = Len(diags)
        /\ \A i \in DOMAIN diags : Unwrap(resp).errors[i].message = diags[i]
        /\ C13_ScopeComplete(file, RootItems)

-----------------------------------------------------------------------------
\* C14

\* The forest without the declarations that lack their identifier (for an
\* impl block, its type), at every depth; the others keep their place and
\* their text range.
RECURSIVE StripNameless(_)
StripNameless(decls) ==
    IF decls = <<>> THEN <<>>
    ELSE LET d == Head(decls)
             kept == IF ~WellFormed(d) THEN <<>>
                     ELSE IF IsSome(d.children)
                          THEN << [ d EXCEPT !.children =
                                        Some(StripNameless(Unwrap(d.children))) ] >>
                          ELSE << d >>
         IN  kept \o StripNameless(Tail(decls))

\* C14: a declaration without its identifier is dropped from the items of
\* its scope and nothing else changes: the items (of the root, of the
\* nested modules, the methods) are those of the same file without these
\* declarations, in the same order and with the same classification, and
\* the diagnostics are the parser's, none added.
C14_NamelessIsDroppedSilently ==
    IsSome(resp) =>
        /\ Len(Unwrap(resp).errors) = Len(diags)
        /\ AppResponded =>
               RootItems = extract_module_info(StripNameless(file), "main", "main.rs",
                                               StripNameless(file)).items
        /\ LibResponded =>
               RootItems = lib_extract_module_info(StripNameless(file), "main",
                                                   "main.rs").items

\* The app parser met a public declaration without a name and emitted the
\* sibling that follows it.
C14_Witness ==
    /\ AppResponded
    /\ \E i, j \in DOMAIN file :
           /\ i < j
           /\ ~WellFormed(file[i])
           /\ is_public(file[i])
           /\ ~HasItemAt(RootItems, file[i].location)
           /\ HasItemAt(RootItems, file[j].location)

-----------------------------------------------------------------------------
\* C15

\* The length of the input text: the end of the source file's text range.
TextLen == SourceRange(file)[2]

ValidSpan(span) == 0 <= span[1] /\ span[1] <= span[2] /\ span[2] <= TextLen

\* The spans of a list of the app parser's items: of the items at every
\* depth and of their (trait) methods.
SpansOfItems(items) ==
    UNION { { it.location }
                \cup { it.details.methods[k].location :
                           k \in DOMAIN it.details.methods } :
            it \in ItemsOf(items) }

\* Every span of a response: of the root module, of the module entries and
\* of the items and methods under them.
SpansOfResponse ==
    LET info == Unwrap(resp).crate_info
    IN  { info.root_module.location }
            \cup { info.modules[k].location : k \in DOMAIN info.modules }
            \cup ( IF AppResponded
                   THEN SpansOfItems(info.root_module.items)
                            \cup UNION { SpansOfItems(info.modules[k].items) :
                                             k \in DOMAIN info.modules }
                   ELSE { RootItems[k].location : k \in DOMAIN RootItems } )

\* C15: every span of every item, trait method and module entry satisfies
\* 0 <= start <= end <= length(text).
C15_SpansAreValid ==
    IsSome(resp) => \A span \in SpansOfResponse : ValidSpan(span)

\* The app parser emitted a trait that starts past offset 0, with a method
\* that ends before the end of the text.
C15_Witness ==
    /\ AppResponded
    /\ \E it \in ItemsOf(RootItems) :
           /\ it.details.tag = "Trait"
           /\ Len(it.details.methods) > 0
           /\ it.location[1] > 0
           /\ it.details.methods[1].location[2] < TextLen

-----------------------------------------------------------------------------
\* SpecCalls: one worker instance serving a series of invocations.  What
\* lasts from one invocation to the next is the tracing subscriber that the
\* start event installs and the events written so far; parse_rust_code
\* keeps nothing.  An input is a text, given as what the external parser
\* makes of it: the tree and the diagnostics.

MaxCalls == 3

CallInputs ==
    { [ file |-> PlaceSeq(f, 0), diags |-> d ] :
          f \in { <<>>,
                  << PubFn("f"), Leaf("struct", Some("pub"), Some("A")), ImplA >>,
                  << Module(Some("pub"), Some(<< PrivFn("g"), PubFn("f") >>)) >> },
          d \in Diagnostics }

InitCalls ==
    /\ calls = <<>>
    /\ started = FALSE
    /\ events = 0
    /\ visIn = None
    /\ visOut = None
    /\ file = <<>>
    /\ diags = <<>>
    /\ resp = None
    /\ fnIn = None
    /\ sigOut = None
    /\ docIn = None
    /\ docOut = None
    /\ locIn = None
    /\ locOut = None
    /\ panicked = FALSE
    /\ hook = FALSE
    /\ inv = <<>>
    /\ ioIn = None
    /\ ioOut = None

\* apps/rust-parser lib.rs start(): registry().with(..).init() sets the
\* global subscriber and panics when one is set already.
Start ==
    /\ ~panicked
    /\ IF started
       THEN panicked' = TRUE /\ UNCHANGED started
       ELSE started' = TRUE /\ UNCHANGED panicked
    /\ UNCHANGED <<calls, events, hook, visVars, parseVars, sigVars, docVars,
                   locVars, parVars, ioVars>>

\* rust-parser lib.rs init(): console_error_panic_hook::set_once().
LibInit ==
    /\ ~panicked
    /\ hook' = TRUE
    /\ UNCHANGED <<calls, started, events, panicked, visVars, parseVars,
                   sigVars, docVars, locVars, parVars, ioVars>>

\* The variant that does not clear the diagnostics of the call before.
AppCall_KeepsErrors ==
    /\ ~panicked
    /\ Len(calls) < MaxCalls
    /\ \E in \in CallInputs :
           /\ calls' = Append(calls,
                  [ parser |-> "app",
                    input  |-> in,
                    output |-> app_parse_rust_code(in.file,
                                   (IF Len(calls) = 0 THEN <<>>
                                    ELSE calls[Len(calls)].input.diags)
                                       \o in.diags) ])
           /\ events' = events + Len(in.diags)
    /\ UNCHANGED <<started, panicked, hook, visVars, parseVars, sigVars,
                   docVars, locVars, parVars, ioVars>>

\* parser.rs parse_rust_code: one tracing::warn! event for every
\* diagnostic, then the response.
AppCall ==
    /\ ~panicked
    /\ Len(calls) < MaxCalls
    /\ \E in \in CallInputs :
           /\ calls' = Append(calls,
                  [ parser |-> "app",
                    input  |-> in,
                    output |-> app_parse_rust_code(in.file, in.diags) ])
           /\ events' = events + Len(in.diags)
    /\ UNCHANGED <<started, panicked, hook, visVars, parseVars, sigVars,
                   docVars, locVars, parVars, ioVars>>

\* rust-parser lib.rs parse_rust_code: no event, the response.
LibCall ==
    /\ ~panicked
    /\ Len(calls) < MaxCalls
    /\ \E in \in CallInputs :
           calls' = Append(calls,
               [ parser |-> "lib",
                 input  |-> in,
                 output |-> lib_parse_rust_code(in.file, in.diags) ])
    /\ UNCHANGED <<started, events, panicked, hook, visVars, parseVars,
                   sigVars, docVars, locVars, parVars, ioVars>>

NextCalls == Start \/ LibInit \/ AppCall \/ LibCall

SpecCalls == InitCalls /\ [][NextCalls]_vars

-----------------------------------------------------------------------------
\* C16

\* A response without its measured duration.
SansDuration(response) == [ response EXCEPT !.parse_time = 0 ]

-----------------------------------------------------------------------------
\* SpecLoc: the line/column spans of the library (rust-parser lib.rs).  The
\* input is a file text and the text range of one item in it.

\* offset_to_line_col: walk the characters of source whose index is below
\* offset; a line feed opens a line, any other character a column.
RECURSIVE line_col_walk(_, _, _, _, _)
line_col_walk(source, offset, i, line, col) ==
    IF i >= Len(source) \/ i >= offset THEN << line, col >>
    ELSE IF CharAt(source, i + 1) = "\n"
         THEN line_col_walk(source, offset, i + 1, line + 1, 1)
         ELSE line_col_walk(source, offset, i + 1, line, col + 1)

offset_to_line_col(source, offset) == line_col_walk(source, offset, 0, 1, 1)

SourceLocation(start_lc, end_lc, start, end) ==
    [ start_line |-> start_lc[1], start_column |-> start_lc[2],
      end_line |-> end_lc[1], end_column |-> end_lc[2],
      start_byte |-> start, end_byte |-> end ]

text_range_to_location(range, source) ==
    LET start == range[1]
        end   == range[2]
    IN  SourceLocation(offset_to_line_col(source, start),
                       offset_to_line_col(source, end), start, end)

\* extract_function_info and the other extract_*_info of the library:
\* source_code is the text of the item's node, the range is the node's.
item_location(text, range) ==
    LET source_code == SubSeq(text, range[1] + 1, range[2])
    IN  text_range_to_location(range, source_code)

\* extract_module_info of the library: the range and the text of the
\* source file's node.
module_location(text) == text_range_to_location(<< 0, Len(text) >>, text)

\* The texts: at most MaxBefore lines, then the item, indented or not.
MaxBefore == 2

LinesBefore == { "", "// c", "fn a() {}" }

RECURSIVE TextsBefore(_)
TextsBefore(n) ==
    IF n = 0 THEN { "" }
    ELSE TextsBefore(n - 1) \cup
         { t \o l \o "\n" : t \in TextsBefore(n - 1), l \in LinesBefore }

ItemTexts == { "fn f() {}", "fn g() {\n    1\n}", "struct S;" }

LocInputs ==
    { [ text  |-> before \o indent \o item \o "\n",
        range |-> << Len(before \o indent), Len(before \o indent \o item) >> ] :
          before \in TextsBefore(MaxBefore), indent \in { "", "  " },
          item \in ItemTexts }

InitLoc ==
    /\ locIn \in { Some(x) : x \in LocInputs }
    /\ locOut = None
    /\ calls = <<>>
    /\ started = FALSE
    /\ events = 0
    /\ visIn = None
    /\ visOut = None
    /\ file = <<>>
    /\ diags = <<>>
    /\ resp = None
    /\ fnIn = None
    /\ sigOut = None
    /\ docIn = None
    /\ docOut = None
    /\ panicked = FALSE
    /\ hook = FALSE
    /\ inv = <<>>
    /\ ioIn = None
    /\ ioOut = None

\* The span of the item.
ItemLocation ==
    /\ locOut = None
    /\ locOut' = Some([ of       |-> "item",
                        range    |-> Unwrap(locIn).range,
                        location |-> item_location(Unwrap(locIn).text,
                                                   Unwrap(locIn).range) ])
    /\ UNCHANGED <<locIn, visVars, parseVars, sigVars, docVars, callVars,
                 parVars, ioVars>>

\* The span of the root module.
ModuleLocation ==
    /\ locOut = None
    /\ locOut' = Some([ of       |-> "module",
                        range    |-> << 0, Len(Unwrap(locIn).text) >>,
                        location |-> module_location(Unwrap(locIn).text) ])
    /\ UNCHANGED <<locIn, visVars, parseVars, sigVars, docVars, callVars,
                 parVars, ioVars>>

NextLoc == ItemLocation \/ ModuleLocation

SpecLoc == InitLoc /\ [][NextLoc]_vars

-----------------------------------------------------------------------------
\* C17

\* The 1-based line and column of a byte offset of a text: one more than
\* the line feeds before the offset, and one more than the characters
\* between the last of them and the offset.
LineColOf(text, offset) ==
    LET feeds == { i \in 1..offset : CharAt(text, i) = "\n" }
        last  == IF feeds = {} THEN 0
                 ELSE CHOOSE i \in feeds : \A j \in feeds : j <= i
    IN  << 1 + Cardinality(feeds), 1 + (offset - last) >>

\* C17: the line and column of the start and of the end of a reported span
\* are the positions, in the file text, of the span's start and end byte
\* offsets.
C17_LineColumnOfOwnOffsets ==
    IsSome(locOut) =>
        LET loc  == Unwrap(locOut).location
            text == Unwrap(locIn).text
        IN  /\ << loc.start_line, loc.start_column >> = LineColOf(text, loc.start_byte)
            /\ << loc.end_line, loc.end_column >> = LineColOf(text, loc.end_byte)

-----------------------------------------------------------------------------
\* C18

\* The position, among the declarations of a scope, of the declaration an
\* item was made from; 0 when the item is of none of them.
DeclIndex(decls, it) ==
    IF \E i \in DOMAIN decls : decls[i].location = it.location
    THEN CHOOSE i \in DOMAIN decls : decls[i].location = it.location
    ELSE 0

\* The items of one scope come from direct children of the scope and stand
\* in the order of their declarations.
InDeclarationOrder(decls, items) ==
    /\ \A k \in DOMAIN items : DeclIndex(decls, items[k]) > 0
    /\ \A a, b \in DOMAIN items :
           a < b => DeclIndex(decls, items[a]) < DeclIndex(decls, items[b])

\* The same for a scope of the app parser's tree and for the scopes of the
\* Module items in it.
RECURSIVE C18_ScopeInOrder(_, _)
C18_ScopeInOrder(decls, items) ==
    /\ InDeclarationOrder(decls, items)
    /\ \A k \in DOMAIN items :
           items[k].details.tag = "Module" =>
               LET m == decls[DeclIndex(decls, items[k])]
               IN  C18_ScopeInOrder(IF IsSome(m.children) THEN Unwrap(m.children)
                                    ELSE <<>>,
                                    items[k].details.items)

\* C18: in every scope the items list keeps the declaration order and holds
\* only items of declarations that are direct children of the scope; what
\* is declared inside an inline module is under that module's item only.
C18_OrderKeptPerScope ==
    /\ AppResponded => C18_ScopeInOrder(file, RootItems)
    /\ LibResponded => InDeclarationOrder(file, RootItems)

\* The app parser emitted two items of the root, the first an inline module
\* with an item of its own.
C18_Witness ==
    /\ AppResponded
    /\ Len(RootItems) >= 2
    /\ RootItems[1].details.tag = "Module"
    /\ Len(RootItems[1].details.items) > 0

-----------------------------------------------------------------------------
\* C19

\* The display name the kind of a declaration asks for: the referenced
\* path of an import (the name() of a use node here), the identifier of a
\* constant, static or type alias, `<Trait> for <Type>` or `<Type>` for an
\* impl block.
DisplayName(d) ==
    IF d.kind = "impl"
    THEN IF IsSome(d.trait_)
         THEN Unwrap(d.trait_) \o " for " \o Unwrap(d.self_ty)
         ELSE Unwrap(d.self_ty)
    ELSE Unwrap(d.name)

OtherKinds == { "use", "const", "static", "type_alias", "impl" }

-----------------------------------------------------------------------------
\* C20

\* The named functions among the associated items of a trait body, in
\* declaration order.
RECURSIVE NamedFns(_)
NamedFns(assoc) ==
    IF assoc = <<>> THEN <<>>
    ELSE ( IF Head(assoc).kind = "fn" /\ IsSome(Head(assoc).name)
           THEN << Head(assoc) >> ELSE <<>> )
         \o NamedFns(Tail(assoc))

\* C20: the methods of a Trait item are, one for one and in declaration
\* order, the named functions declared in the trait's own body, public or
\* not; other associated items and functions without a name give no entry,
\* and no method of an ADT is in the list.
C20_TraitMethodsAreTheBodysFns ==
    AppResponded =>
        \A it \in ItemsOf(RootItems) :
            it.details.tag = "Trait" =>
                LET t    == DeclAt(it.location)
                    body == IF IsSome(t.children) THEN Unwrap(t.children) ELSE <<>>
                    fns  == NamedFns(body)
                IN  /\ Len(it.details.methods) = Len(fns)
                    /\ \A k \in DOMAIN fns :
                           /\ it.details.methods[k].name = Unwrap(fns[k].name)
                           /\ it.details.methods[k].location = fns[k].location
                    /\ \A k \in DOMAIN it.details.methods :
                           Inside(it.details.methods[k].location, it.location)

\* A trait with a private and a public function, a constant and a function
\* without a name was emitted with its two methods, next to a struct.
C20_Witness ==
    /\ AppResponded
    /\ \E i, j \in DOMAIN RootItems :
           /\ RootItems[i].details.tag = "Trait"
           /\ Len(RootItems[i].details.methods) = 2
           /\ Len(Unwrap(DeclAt(RootItems[i].location).children)) = 4
           /\ RootItems[j].details.tag = "Struct"

\* ---------------------------------------------------------------------
\* C21: global setup runs at most once per process
\* ---------------------------------------------------------------------

\* C21: whatever the sequence of start events, initialisations and parse
\* requests, the process never reaches the fatal state in which the global
\* tracing subscriber is set a second time.
C21_SetupAtMostOnce ==
    ~panicked

\* ---------------------------------------------------------------------
\* SpecPar: invocations of the app parser's parse_rust_code that overlap.
\* Each invocation has its argument `code` and its locals (errors,
\* root_module, all_modules); the steps of different invocations interleave
\* freely.  The only thing outside an invocation that a step touches is the
\* tracing subscriber, which receives one event per diagnostic.
\* ---------------------------------------------------------------------

NumInvocations == 2

InitPar ==
    /\ inv = <<>>
    /\ events = 0
    /\ calls = <<>>
    /\ started = FALSE
    /\ panicked = FALSE
    /\ hook = FALSE
    /\ visIn = None
    /\ visOut = None
    /\ file = <<>>
    /\ diags = <<>>
    /\ resp = None
    /\ fnIn = None
    /\ sigOut = None
    /\ docIn = None
    /\ docOut = None
    /\ locIn = None
    /\ locOut = None
    /\ ioIn = None
    /\ ioOut = None

\* parse_rust_code(code) is entered: SourceFile::parse(code) gives the
\* invocation its own tree and diagnostics.
Invoke ==
    /\ Len(inv) < NumInvocations
    /\ \E in \in CallInputs :
          inv' = Append(inv, [ code |-> in.file, parsed_errors |-> in.diags,
                               pc |-> "errors", errors |-> None,
                               root_module |-> None, all_modules |-> None,
                               out |-> None ])
    /\ UNCHANGED <<callVars, visVars, parseVars, sigVars, docVars, locVars,
                   ioVars>>

\* let errors = parsed.errors().iter().map(..).collect(), one
\* tracing::warn! per diagnostic.
ExtractErrors ==
    /\ \E i \in DOMAIN inv :
          /\ inv[i].pc = "errors"
          /\ inv' = [ inv EXCEPT
                        ![i].errors = Some([ k \in DOMAIN inv[i].parsed_errors |->
                                               [ message |-> inv[i].parsed_errors[k],
                                                 severity |-> "error",
                                                 location |-> None ] ]),
                        ![i].pc = "root_module" ]
          /\ events' = events + Len(inv[i].parsed_errors)
    /\ UNCHANGED <<calls, started, panicked, hook, visVars, parseVars, sigVars,
                   docVars, locVars, ioVars>>

\* The variant whose struct-method lookup parses the text of the invocation
\* entered last instead of its own argument.
ExtractRoot_SharedSource ==
    /\ \E i \in DOMAIN inv :
          /\ inv[i].pc = "root_module"
          /\ inv' = [ inv EXCEPT
                        ![i].root_module =
                            Some(extract_module_info(inv[i].code, "main", "main.rs",
                                                     inv[Len(inv)].code)),
                        ![i].pc = "all_modules" ]
    /\ UNCHANGED <<callVars, visVars, parseVars, sigVars, docVars, locVars,
                   ioVars>>

\* let root_module = extract_module_info(&source_file, "main", "main.rs", code).
ExtractRoot ==
    /\ \E i \in DOMAIN inv :
          /\ inv[i].pc = "root_module"
          /\ inv' = [ inv EXCEPT
                        ![i].root_module =
                            Some(extract_module_info(inv[i].code, "main", "main.rs",
                                                     inv[i].code)),
                        ![i].pc = "all_modules" ]
    /\ UNCHANGED <<callVars, visVars, parseVars, sigVars, docVars, locVars,
                   ioVars>>

\* let mut all_modules = vec![root_module.clone()];
\* collect_modules_recursive(&source_file, "main", &mut all_modules, code).
CollectModules ==
    /\ \E i \in DOMAIN inv :
          /\ inv[i].pc = "all_modules"
          /\ inv' = [ inv EXCEPT
                        ![i].all_modules =
                            Some(<<Unwrap(inv[i].root_module)>>
                                 \o collect_modules_recursive(inv[i].code, "main",
                                                              inv[i].code)),
                        ![i].pc = "respond" ]
    /\ UNCHANGED <<callVars, visVars, parseVars, sigVars, docVars, locVars,
                   ioVars>>

\* Ok(ParseResponse { success: errors.is_empty(), parse_time: 100,
\*                    crate_info: Some(crate_info), errors }).
Respond ==
    /\ \E i \in DOMAIN inv :
          /\ inv[i].pc = "respond"
          /\ inv' = [ inv EXCEPT
                        ![i].out =
                            Some([ parser     |-> "app",
                                   success    |-> (Unwrap(inv[i].errors) = <<>>),
                                   parse_time |-> 100,
                                   crate_info |->
                                       [ name |-> "unnamed",
                                         modules |-> Unwrap(inv[i].all_modules),
                                         root_module |-> Unwrap(inv[i].root_module) ],
                                   errors     |-> Unwrap(inv[i].errors) ]),
                        ![i].pc = "done" ]
    /\ UNCHANGED <<callVars, visVars, parseVars, sigVars, docVars, locVars,
                   ioVars>>

NextPar == Invoke \/ ExtractErrors \/ ExtractRoot \/ CollectModules \/ Respond

SpecPar == InitPar /\ [][NextPar]_vars

\* What an invocation on this text returns when it runs alone.
AloneResult(code, parsed_errors) ==
    app_parse_rust_code(code, parsed_errors)

\* C22: for any interleaving of the steps of two invocations, each
\* invocation that has returned has returned what it returns when run
\* alone on its own text, and until then it has returned nothing.
C22_InterleavingsDoNotInterfere ==
    \A i \in DOMAIN inv :
        IF inv[i].pc = "done"
        THEN inv[i].out = Some(AloneResult(inv[i].code, inv[i].parsed_errors))
        ELSE inv[i].out = None

\* The second invocation has run from entry to return while the first, on
\* a different text and with other diagnostics, has extracted a root
\* module with items and has not collected its modules yet.
C22_Witness ==
    /\ Len(inv) = 2
    /\ inv[1].code # inv[2].code
    /\ inv[1].parsed_errors # inv[2].parsed_errors
    /\ inv[2].pc = "done"
    /\ inv[1].pc = "all_modules"
    /\ Unwrap(inv[1].root_module).items # <<>>
    /\ IsSome(inv[2].out)

\* ---------------------------------------------------------------------
\* SpecIo: the entry points around the extraction: the command line
\* program (apps/rust-parser main.rs) and the two WASM exports.  What the
\* environment gives is an input: the argument count, whether the file
\* exists and can be read, whether the request decodes, and the field at
\* which the serializer fails (0: it does not fail).
\* ---------------------------------------------------------------------

Ok(v) == [ tag |-> "Ok", value |-> v ]

Err(e) == [ tag |-> "Err", error |-> e ]

\* The fields of ParseResponse in declaration order, and their keys under
\* #[serde(rename_all = "camelCase")].
ResponseFields == << "success", "parse_time", "crate_info", "errors" >>

CamelCase(field) ==
    CASE field = "parse_time" -> "parseTime"
      [] field = "crate_info" -> "crateInfo"
      [] OTHER                -> field

\* The derived Serialize of ParseResponse: the fields are written in
\* order, and the first one that fails ends the serialization.
serialize_fields(response, upto) ==
    [ k \in 1..upto |-> << CamelCase(ResponseFields[k]), response[ResponseFields[k]] >> ]

\* The variant that hands out what was written before the failure.
to_string_pretty_Partial(response, fail_at) ==
    IF fail_at \in DOMAIN ResponseFields
    THEN Ok(serialize_fields(response, fail_at - 1))
    ELSE Ok(serialize_fields(response, Len(ResponseFields)))

\* serde_json::to_string_pretty(&response): the text is built in a buffer
\* of its own; on failure the buffer is dropped and Err is returned.
to_string_pretty(response, fail_at) ==
    IF fail_at \in DOMAIN ResponseFields
    THEN Err("serde_json error")
    ELSE Ok(serialize_fields(response, Len(ResponseFields)))

\* serde_wasm_bindgen::to_value(&response): Ok(JsValue) or Err.
to_value(response, fail_at) ==
    IF fail_at \in DOMAIN ResponseFields
    THEN Err("serde_wasm_bindgen error")
    ELSE Ok(serialize_fields(response, Len(ResponseFields)))

\* serde_wasm_bindgen::from_value(request): the ParseRequest, or Err when
\* the value does not decode.
from_value(request) ==
    IF request.decodes THEN Ok([ code |-> request.code ]) ELSE Err("invalid request")

\* The process after main: what it wrote and its exit status.
Exit(stdout, stderr, status) ==
    [ stdout |-> stdout, stderr |-> stderr, status |-> status ]

\* main.rs main().
cli_main(in) ==
    IF in.argc # 2
    THEN Exit(<<>>, <<"Usage">>, 1)
    ELSE IF ~in.exists
    THEN Exit(<<>>, <<"Error: File does not exist">>, 1)
    ELSE IF ~in.readable
    THEN Exit(<<>>, <<"Error reading file">>, 1)
    ELSE LET parsed == Ok(app_parse_rust_code(in.code.file, in.code.diags))
         IN  IF parsed.tag = "Ok"
             THEN LET json == to_string_pretty(parsed.value, in.fail_at)
                  IN  IF json.tag = "Ok"
                      THEN Exit(<<json.value>>, <<>>, 0)
                      ELSE Exit(<<>>, <<"Error serializing response">>, 1)
             ELSE Exit(<<>>, <<"Error parsing Rust code">>, 1)

\* apps/rust-parser lib.rs parse_rust_code(request): each `?` returns the
\* Err of its operand.
wasm_app_parse_rust_code(in) ==
    LET request == from_value(in)
    IN  IF request.tag = "Err"
        THEN Err(request.error)
        ELSE LET response == Ok(app_parse_rust_code(request.value.code.file,
                                                    request.value.code.diags))
             IN  IF response.tag = "Err"
                 THEN Err(response.error)
                 ELSE LET value == to_value(response.value, in.fail_at)
                      IN  IF value.tag = "Err" THEN Err(value.error)
                                               ELSE Ok(value.value)

\* rust-parser lib.rs parse_rust_code(code): to_value(..).map_err(..).
wasm_lib_parse_rust_code(in) ==
    LET value == to_value(lib_parse_rust_code(in.code.file, in.code.diags),
                          in.fail_at)
    IN  IF value.tag = "Err" THEN Err("Serialization error: " \o value.error)
                             ELSE Ok(value.value)

MaxArgs == 3

FailPoints == 0..Len(ResponseFields)

CliInputs ==
    { [ entry |-> "cli", argc |-> n, exists |-> e, readable |-> r,
        code |-> c, fail_at |-> k ] :
          n \in 1..MaxArgs, e \in BOOLEAN, r \in BOOLEAN, c \in CallInputs,
          k \in FailPoints }

WasmAppInputs ==
    { [ entry |-> "wasm_app", decodes |-> d, code |-> c, fail_at |-> k ] :
          d \in BOOLEAN, c \in CallInputs, k \in FailPoints }

WasmLibInputs ==
    { [ entry |-> "wasm_lib", code |-> c, fail_at |-> k ] :
          c \in CallInputs, k \in FailPoints }

InitIo ==
    /\ ioIn \in { Some(in) : in \in CliInputs \cup WasmAppInputs \cup WasmLibInputs }
    /\ ioOut = None
    /\ inv = <<>>
    /\ events = 0
    /\ calls = <<>>
    /\ started = FALSE
    /\ panicked = FALSE
    /\ hook = FALSE
    /\ visIn = None
    /\ visOut = None
    /\ file = <<>>
    /\ diags = <<>>
    /\ resp = None
    /\ fnIn = None
    /\ sigOut = None
    /\ docIn = None
    /\ docOut = None
    /\ locIn = None
    /\ locOut = None

CliMain ==
    /\ ioOut = None
    /\ Unwrap(ioIn).entry = "cli"
    /\ ioOut' = Some(cli_main(Unwrap(ioIn)))
    /\ UNCHANGED <<ioIn, callVars, visVars, parseVars, sigVars, docVars,
                   locVars, parVars>>

WasmAppParse ==
    /\ ioOut = None
    /\ Unwrap(ioIn).entry = "wasm_app"
    /\ ioOut' = Some(wasm_app_parse_rust_code(Unwrap(ioIn)))
    \* tracing::info! for the request, tracing::warn! per diagnostic
    /\ events' = IF Unwrap(ioIn).decodes
                 THEN events + 1 + Len(Unwrap(ioIn).code.diags)
                 ELSE events
    /\ UNCHANGED <<ioIn, calls, started, panicked, hook, visVars, parseVars,
                   sigVars, docVars, locVars, parVars>>

WasmLibParse ==
    /\ ioOut = None
    /\ Unwrap(ioIn).entry = "wasm_lib"
    /\ ioOut' = Some(wasm_lib_parse_rust_code(Unwrap(ioIn)))
    /\ UNCHANGED <<ioIn, callVars, visVars, parseVars, sigVars, docVars,
                   locVars, parVars>>

NextIo == CliMain \/ WasmAppParse \/ WasmLibParse

SpecIo == InitIo /\ [][NextIo]_vars

\* The complete JSON object of a response: its four keys, in order.
CompleteJson(response) ==
    << <<"success", response.success>>, <<"parseTime", response.parse_time>>,
       <<"crateInfo", response.crate_info>>, <<"errors", response.errors>> >>

\* Reading the file, extracting and serializing all succeeded.
CliAllSucceeded(in) ==
    in.argc = 2 /\ in.exists /\ in.readable /\ in.fail_at = 0

\* C23: the command line program writes to standard output only when the
\* argument count is right and reading, extracting and serializing all
\* succeeded, and then it writes the complete JSON; on every failure path
\* it writes nothing to standard output, reports on standard error and
\* exits with status 1.  A WASM entry point whose serialization fails
\* returns Err, and what it returns as a value is always the complete
\* object.
C23_NoPartialResult ==
    IsSome(ioOut) =>
        LET in  == Unwrap(ioIn)
            out == Unwrap(ioOut)
        IN  CASE in.entry = "cli" ->
                   IF CliAllSucceeded(in)
                   THEN /\ out.stdout = << CompleteJson(app_parse_rust_code(
                                               in.code.file, in.code.diags)) >>
                        /\ out.status = 0
                   ELSE /\ out.stdout = <<>>
                        /\ out.stderr # <<>>
                        /\ out.status = 1
              [] in.entry = "wasm_app" ->
                   /\ in.fail_at # 0 => out.tag = "Err"
                   /\ out.tag = "Ok" =>
                        out.value = CompleteJson(app_parse_rust_code(
                                        in.code.file, in.code.diags))
              [] in.entry = "wasm_lib" ->
                   /\ in.fail_at # 0 => out.tag = "Err"
                   /\ out.tag = "Ok" =>
                        out.value = CompleteJson(lib_parse_rust_code(
                                        in.code.file, in.code.diags))

\* The command line program read a file with declarations, extracted, and
\* the serializer failed after it had written two fields: nothing on
\* standard output, status 1.
C23_Witness ==
    /\ IsSome(ioOut)
    /\ Unwrap(ioIn).entry = "cli"
    /\ Unwrap(ioIn).argc = 2
    /\ Unwrap(ioIn).exists
    /\ Unwrap(ioIn).readable
    /\ Unwrap(ioIn).code.file # <<>>
    /\ Unwrap(ioIn).fail_at = 3
    /\ Unwrap(ioOut).stdout = <<>>
    /\ Unwrap(ioOut).stderr = <<"Error serializing response">>
    /\ Unwrap(ioOut).status = 1

\* ---------------------------------------------------------------------
\* C24: the flattened module list of the app parser
\* ---------------------------------------------------------------------

\* The inline modules of the file that enclose the node at loc.
EnclosingModules(loc) ==
    { d \in NodesOf(file) :
          d.kind = "module" /\ Inside(loc, d.location) /\ d.location # loc }

\* `main`, then `::` and the name of every module of the set, outermost first.
RECURSIVE PathThrough(_, _)
PathThrough(prefix, mods) ==
    IF mods = {} THEN prefix
    ELSE LET outer == CHOOSE d \in mods :
                          \A e \in mods : d.location[1] <= e.location[1]
         IN  PathThrough(prefix \o "::" \o Unwrap(outer.name), mods \ {outer})

\* The path of the module that encloses the node at loc.
EnclosingPath(loc) == PathThrough("main", EnclosingModules(loc))

\* The number of `::` separators of a path.
RECURSIVE Separators(_)
Separators(path) ==
    IF Len(path) < 2 THEN 0
    ELSE IF SubSeq(path, 1, 2) = "::"
    THEN 1 + Separators(SubSeq(path, 3, Len(path)))
    ELSE Separators(SubSeq(path, 2, Len(path)))

\* C24: in every response of the app parser the module list is not empty,
\* its first entry is the root module, named `main` with path `main.rs`,
\* and equals crate_info.root_module; every other entry is the entry of an
\* inline module of the file, its path is the path of the enclosing module
\* (`main` at top level) followed by `::` and its own name, and the number
\* of separators in it is the module's nesting depth.
C24_ModulePathsFollowNesting ==
    AppResponded =>
        LET info    == Unwrap(resp).crate_info
            modules == info.modules
        IN  /\ modules # <<>>
            /\ modules[1] = info.root_module
            /\ modules[1].name = "main"
            /\ modules[1].path = "main.rs"
            /\ \A k \in 2..Len(modules) :
                  /\ \E d \in NodesOf(file) :
                        d.kind = "module" /\ d.location = modules[k].location
                           /\ d.name = Some(modules[k].name)
                  /\ modules[k].path = EnclosingPath(modules[k].location)
                                       \o "::" \o modules[k].name
                  /\ Separators(modules[k].path)
                        = Cardinality(EnclosingModules(modules[k].location)) + 1

\* The app parser answered on the file of the modules a, a::b, a::b::c and
\* d: the list holds the root, an entry of depth 3 and two of depth 1.
C24_Witness ==
    /\ AppResponded
    /\ \E k \in 2..Len(Unwrap(resp).crate_info.modules) :
          Unwrap(resp).crate_info.modules[k].path = "main::a::b::c"
    /\ \E k \in 2..Len(Unwrap(resp).crate_info.modules) :
          Unwrap(resp).crate_info.modules[k].path = "main::a"
    /\ \E k \in 2..Len(Unwrap(resp).crate_info.modules) :
          Unwrap(resp).crate_info.modules[k].path = "main::d"

====
